---- MODULE Spec2Model ----
(***************************************************************************)
(* A model of wbwseeker/meteor (src/meteor/meteor.py): the signature       *)
(* pipeline (preprocess), the alignment program (align), the grouping of   *)
(* candidate matches (compute_cliques), the chunk counter (count_chunks)   *)
(* and the score (meteor).                                                 *)
(*                                                                         *)
(* Conventions.  Token and match indices are 0-based as in the source;     *)
(* TLA+ sequences are 1-based, so token tid sits at position tid + 1.      *)
(* Stage weights are floats in the source; here a weight is the integer    *)
(* number of tenths (1.0 is 10, 0.6 is 6), so that the coefficient -1.0 of *)
(* a crossing variable is -10.  Scores are exact rationals <<num, den>>.   *)
(***************************************************************************)
EXTENDS Integers, Sequences, FiniteSets, TLC

VARIABLES
    pc,           \* position in the call being modelled
    stages,       \* list of stage objects given to meteor / preprocess / align
    hypothesis,   \* hypothesis text, as the list of words word_tokenize yields
    reference,    \* reference text, likewise
    hypo_tokens,  \* meteor's hypo_tokens (list of Token)
    ref_tokens,   \* meteor's ref_tokens
    stage_i,      \* 1-based index of the next stage of preprocess's loop
    alignment,    \* the list align returned / the argument of count_chunks
    num_chunks,   \* what count_chunks returned
    score,        \* what meteor returned, <<num, den>>
    matches,      \* the argument of compute_cliques
    cliques       \* what compute_cliques returned

vars == <<pc, stages, hypothesis, reference, hypo_tokens, ref_tokens, stage_i,
          alignment, num_chunks, score, matches, cliques>>

----------------------------------------------------------------------------
(* Bounds of the model *)

MaxLen == 3
MaxStages == 2
MaxIndex == 2
MaxMatches == 3

(* Program constants *)

IdentityWeight == 10
StemWeight == 6
NegInf == -1

----------------------------------------------------------------------------
(* Generic helpers *)

Range(s) == {s[i] : i \in 1..Len(s)}

Min(a, b) == IF a <= b THEN a ELSE b

SetMax(S) == CHOOSE x \in S : \A y \in S : y <= x

RECURSIVE SumF(_, _)
SumF(f, S) ==
    IF S = {} THEN 0
    ELSE LET x == CHOOSE y \in S : TRUE IN f[x] + SumF(f, S \ {x})

RECURSIVE SumSeq(_)
SumSeq(s) == IF s = <<>> THEN 0 ELSE Head(s) + SumSeq(Tail(s))

SeqsUpTo(S, n) == UNION {[1..k -> S] : k \in 0..n}

(* Python's ordering of tuples (h, r) *)
LexLess(a, b) == a[1] < b[1] \/ (a[1] = b[1] /\ a[2] < b[2])

RECURSIVE Insert(_, _)
Insert(x, s) ==
    IF s = <<>> THEN <<x>>
    ELSE IF LexLess(x, Head(s)) THEN <<x>> \o s
    ELSE <<Head(s)>> \o Insert(x, Tail(s))

(* sorted(list of pairs) *)
RECURSIVE Sorted(_)
Sorted(s) == IF s = <<>> THEN <<>> ELSE Insert(Head(s), Sorted(Tail(s)))

Abs(x) == IF x < 0 THEN -x ELSE x

----------------------------------------------------------------------------
(* Exact rationals <<num, den>>, den > 0 *)

RInt(k) == <<k, 1>>
RMul(a, b) == <<a[1] * b[1], a[2] * b[2]>>
RAdd(a, b) == <<a[1] * b[2] + b[1] * a[2], a[2] * b[2]>>
RSub(a, b) == <<a[1] * b[2] - b[1] * a[2], a[2] * b[2]>>
RDiv(a, b) == <<a[1] * b[2], a[2] * b[1]>>
RPow3(a) == RMul(a, RMul(a, a))
RLeq(a, b) == a[1] * b[2] <= b[1] * a[2]
REq(a, b) == a[1] * b[2] = b[1] * a[2]

----------------------------------------------------------------------------
(* Tokens and stages *)

Words == {"Frau", "Frauen", "Mann"}

(* SnowballStemmer.stem on the vocabulary: the inflected form collapses *)
Stem(w) == IF w \in {"Frau", "Frauen"} THEN "frau" ELSE "mann"

Token(i, w) == [tid |-> i, text |-> w, stages |-> <<>>]

tokenize(text) == [k \in 1..Len(text) |-> Token(k - 1, text[k])]

IdentityStage(w) == [kind |-> "identity", weight |-> w, key |-> "Frau"]
StemmingStage(w) == [kind |-> "stemming", weight |-> w, key |-> "Frau"]
(* a StageBase subclass whose signature tells one word from all others *)
KeyStage(w, k) == [kind |-> "key", weight |-> w, key |-> k]
(* the BrokenStage of the test suite: appends to odd-indexed tokens only *)
BrokenStage(w) == [kind |-> "broken", weight |-> w, key |-> "Frau"]

StageCatalogue ==
    {IdentityStage(IdentityWeight), StemmingStage(StemWeight),
     BrokenStage(IdentityWeight)}
    \cup {KeyStage(w, k) : w \in {IdentityWeight, StemWeight},
                            k \in {"Frau", "Frauen"}}

(* the representation a stage produces for one token *)
Signature(stage, token) ==
    CASE stage.kind = "identity" -> token.text
      [] stage.kind = "stemming" -> Stem(token.text)
      [] stage.kind = "key" -> IF token.text = stage.key THEN "key" ELSE "other"
      [] OTHER -> token.text

Appends(stage, token) ==
    IF stage.kind = "broken" THEN token.tid % 2 = 1 ELSE TRUE

process_tokens(stage, tokens) ==
    [k \in 1..Len(tokens) |->
        IF Appends(stage, tokens[k])
        THEN [tokens[k] EXCEPT !.stages = Append(@, Signature(stage, tokens[k]))]
        ELSE tokens[k]]

(* validate with the threshold off by one *)
ValidateRaisesLax(tokens) ==
    Cardinality({Len(tokens[k].stages) : k \in 1..Len(tokens)}) > 2

(* StageBase.validate: TRUE when it raises *)
ValidateRaises(tokens) ==
    Cardinality({Len(tokens[k].stages) : k \in 1..Len(tokens)}) > 1

----------------------------------------------------------------------------
(* compute_cliques *)

(* for j, (h_j, r_j) in enumerate(matches[i:]): position k is i + j *)
RECURSIVE InnerLoop(_, _, _, _)
InnerLoop(ms, sets, i, k) ==
    IF k > Len(ms) THEN sets
    ELSE InnerLoop(ms,
                   IF ms[i][1] = ms[k][1] \/ ms[i][2] = ms[k][2]
                   THEN [sets EXCEPT ![k] = sets[i]]
                   ELSE sets,
                   i, k + 1)

(* for i, (h_i, r_i) in enumerate(matches) *)
RECURSIVE OuterLoop(_, _, _)
OuterLoop(ms, sets, i) ==
    IF i > Len(ms) THEN sets
    ELSE OuterLoop(ms, InnerLoop(ms, sets, i, i), i + 1)

(* sets: position k (index k - 1) |-> label, a 0-based index *)
UnionFind(ms) == OuterLoop(ms, [k \in 1..Len(ms) |-> k - 1], 1)

(* the positions carrying one label, in index order (sorted is stable) *)
GroupPositions(sets, label) ==
    SelectSeq([k \in 1..Len(sets) |-> k], LAMBDA k : sets[k] = label)

(* [matches[index] for _, index in group]: index and label swapped *)
GroupSwapped(ms, sets, label) ==
    [j \in 1..Len(GroupPositions(sets, label)) |-> ms[label + 1]]

(* [matches[index] for index, _ in group] *)
Group(ms, sets, label) ==
    LET idx == GroupPositions(sets, label)
    IN  [j \in 1..Len(idx) |-> ms[idx[j]]]

(* groupby over the items sorted by label: one group per label, ascending *)
compute_cliques(ms) ==
    LET sets == UnionFind(ms)
        labels == SelectSeq([k \in 1..Len(ms) |-> k - 1],
                            LAMBDA l : \E k \in 1..Len(ms) : sets[k] = l)
    IN  [g \in 1..Len(labels) |-> Group(ms, sets, labels[g])]

----------------------------------------------------------------------------
(* align: the binary program over the tokens and stages of the state *)

(* hyptoken.stages[i] or reftoken.stages[i] does not exist for some pair *)
IndexErrorRaised ==
    \E ht \in Range(hypo_tokens), rt \in Range(ref_tokens) :
        Len(ht.stages) < Len(stages) \/ Len(rt.stages) < Len(stages)

AgreeingWeights(hyptoken, reftoken) ==
    {stages[i].weight :
        i \in {j \in 1..Len(stages) : hyptoken.stages[j] = reftoken.stages[j]}}

(* the matrix initialised with 0 instead of -inf *)
match_weights_zero(h, r) ==
    LET weights == AgreeingWeights(hypo_tokens[h + 1], ref_tokens[r + 1])
    IN  IF weights = {} THEN 0 ELSE SetMax(weights)

match_weights(h, r) ==
    LET weights == AgreeingWeights(hypo_tokens[h + 1], ref_tokens[r + 1])
    IN  IF weights = {} THEN NegInf ELSE SetMax(weights)

match_vars ==
    {m \in (0..Len(hypo_tokens) - 1) \X (0..Len(ref_tokens) - 1) :
        match_weights(m[1], m[2]) > NegInf}

(* match_vars.keys(): insertion order, h outer and r inner *)
match_keys ==
    LET n == Len(hypo_tokens)
        m == Len(ref_tokens)
        all == [k \in 1..(n * m) |-> <<(k - 1) \div m, (k - 1) % m>>]
        mv == match_vars
    IN  SelectSeq(all, LAMBDA p : p \in mv)

Crosses(a, b) ==
    (a[1] < b[1] /\ a[2] > b[2]) \/ (a[1] > b[1] /\ a[2] < b[2])

(* one crossing variable per ordered pair of product(keys, repeat=2) *)
crossing_vars ==
    LET mv == match_vars
    IN  {c \in mv \X mv : Crosses(c[1], c[2])}

HypConstraints(sel) ==
    \A h \in 0..Len(hypo_tokens) - 1 :
        Cardinality({m \in sel : m[1] = h}) <= 1

(* the loop over the reference indices left out *)
RefConstraintsOff(sel) == TRUE

RefConstraints(sel) ==
    \A r \in 0..Len(ref_tokens) - 1 :
        Cardinality({m \in sel : m[2] = r}) <= 1

align_cliques == compute_cliques(match_keys)

required_matches ==
    LET cl == align_cliques
    IN  SumSeq([c \in 1..Len(cl) |->
                  Min(Cardinality({m[1] : m \in Range(cl[c])}),
                      Cardinality({m[2] : m \in Range(cl[c])}))])

(* the selections of the match variables mv that satisfy every constraint *)
FeasibleIn(mv, required) ==
    {sel \in SUBSET mv :
        /\ Cardinality(sel) = required
        /\ HypConstraints(sel)
        /\ RefConstraints(sel)}

Feasible == FeasibleIn(match_vars, required_matches)

(* the coefficient of each match variable in the objective *)
MatchCoefficients == [m \in match_vars |-> match_weights(m[1], m[2])]

(* the crossing variables left out of the objective *)
ObjectiveNoCrossings(w, cv, sel) == SumF(w, sel)

(* the objective's value at sel, in tenths: a crossing variable has     *)
(* coefficient -1.0 and is 1 only where its constraint forces it        *)
ObjectiveOf(w, cv, sel) ==
    SumF(w, sel) - 10 * Cardinality({c \in sel \X sel : c \in cv})

(* the solutions an exact solver may return *)
Optimal ==
    LET feas == Feasible
        w == MatchCoefficients
        cv == crossing_vars
        valued == {<<sel, ObjectiveOf(w, cv, sel)>> : sel \in feas}
        best == SetMax({v[2] : v \in valued})
    IN  {v[1] : v \in {u \in valued : u[2] = best}}

(* [match for match, var in match_vars.items() if var.x >= 0.99] *)
Selected(sel) == SelectSeq(match_keys, LAMBDA p : p \in sel)

----------------------------------------------------------------------------
(* count_chunks *)

RECURSIVE ChunkLoop(_, _, _, _)
ChunkLoop(s, last_h, last_r, n) ==
    IF s = <<>> THEN n
    ELSE LET h == Head(s)[1]
             r == Head(s)[2]
         IN  ChunkLoop(Tail(s), h, r,
                       IF Abs(last_h - h) # 1 \/ Abs(last_r - r) # 1
                       THEN n + 1 ELSE n)

count_chunks(al) == ChunkLoop(Sorted(al), -2, -2, 0)

----------------------------------------------------------------------------
(* meteor, lines 280-293 *)

(* the factor 9 of the precision left out *)
FscoreEqualWeights(precision, recall) ==
    RDiv(RMul(RInt(10), RMul(precision, recall)), RAdd(recall, precision))

Fscore(precision, recall) ==
    RDiv(RMul(RInt(10), RMul(precision, recall)),
         RAdd(recall, RMul(RInt(9), precision)))

(* the penalty applied from one chunk on *)
PenaltyFromOne(chunks, num_matches) ==
    IF chunks >= 1 THEN RMul(<<1, 2>>, RPow3(<<chunks, num_matches>>))
    ELSE RInt(0)

Penalty(chunks, num_matches) ==
    IF chunks > 1 THEN RMul(<<1, 2>>, RPow3(<<chunks, num_matches>>))
    ELSE RInt(0)

MeteorScore(al, n, m) ==
    IF Len(al) = 0 THEN RInt(0)
    ELSE LET precision == <<Len(al), n>>
             recall == <<Len(al), m>>
         IN  RMul(Fscore(precision, recall),
                  RSub(RInt(1), Penalty(count_chunks(al), Len(al))))

----------------------------------------------------------------------------
(* meteor(hypothesis, reference, stages, language), and align called on    *)
(* preprocessed tokens directly as tests/test_meteor.py::test_alignment    *)
(* does.  Init is the state in which preprocess has tokenized the          *)
(* hypothesis.  pc is "pre_hyp" / "pre_ref" inside the two preprocess      *)
(* calls, "aligned" when align has returned, "done" when meteor has        *)
(* returned, and "validation_error_hyp", "validation_error_ref",           *)
(* "index_error" or "infeasible" when an exception ended the call.         *)

NoScore == <<0, 0>>

Init ==
    /\ stages \in SeqsUpTo(StageCatalogue, MaxStages)
    /\ hypothesis \in SeqsUpTo(Words, MaxLen)
    /\ reference \in SeqsUpTo(Words, MaxLen)
    /\ hypo_tokens = tokenize(hypothesis)
    /\ ref_tokens = <<>>
    /\ stage_i = 1
    /\ pc = "pre_hyp"
    /\ alignment = <<>>
    /\ num_chunks = 0
    /\ score = NoScore
    /\ matches = <<>>
    /\ cliques = <<>>

(* one iteration of preprocess's loop over the hypothesis *)
PreprocessHypStage ==
    /\ pc = "pre_hyp"
    /\ stage_i <= Len(stages)
    /\ LET tokens == process_tokens(stages[stage_i], hypo_tokens)
       IN  /\ hypo_tokens' = tokens
           /\ IF ValidateRaises(tokens)
              THEN pc' = "validation_error_hyp" /\ stage_i' = stage_i
              ELSE pc' = pc /\ stage_i' = stage_i + 1
    /\ UNCHANGED <<stages, hypothesis, reference, ref_tokens, alignment,
                   num_chunks, score, matches, cliques>>

(* preprocess returns the hypothesis tokens; the reference is tokenized *)
PreprocessRefStart ==
    /\ pc = "pre_hyp"
    /\ stage_i > Len(stages)
    /\ ref_tokens' = tokenize(reference)
    /\ stage_i' = 1
    /\ pc' = "pre_ref"
    /\ UNCHANGED <<stages, hypothesis, reference, hypo_tokens, alignment,
                   num_chunks, score, matches, cliques>>

(* one iteration of preprocess's loop over the reference *)
PreprocessRefStage ==
    /\ pc = "pre_ref"
    /\ stage_i <= Len(stages)
    /\ LET tokens == process_tokens(stages[stage_i], ref_tokens)
       IN  /\ ref_tokens' = tokens
           /\ IF ValidateRaises(tokens)
              THEN pc' = "validation_error_ref" /\ stage_i' = stage_i
              ELSE pc' = pc /\ stage_i' = stage_i + 1
    /\ UNCHANGED <<stages, hypothesis, reference, hypo_tokens, alignment,
                   num_chunks, score, matches, cliques>>

(* meteor, lines 274-277: a sentence is empty and meteor returns at once *)
MeteorLengths ==
    /\ pc = "pre_ref"
    /\ stage_i > Len(stages)
    /\ Len(hypo_tokens) = 0 \/ Len(ref_tokens) = 0
    /\ score' = IF Len(hypo_tokens) # Len(ref_tokens) THEN RInt(0) ELSE RInt(1)
    /\ pc' = "done"
    /\ UNCHANGED <<stages, hypothesis, reference, hypo_tokens, ref_tokens,
                   stage_i, alignment, num_chunks, matches, cliques>>

(* align is called on the preprocessed tokens: by meteor (line 279) when  *)
(* both sentences are nonempty, and by test_alignment on any sentences.   *)
(* Line 144: a token holds fewer signatures than there are stages.        *)
AlignIndexError ==
    /\ pc = "pre_ref"
    /\ stage_i > Len(stages)
    /\ IndexErrorRaised
    /\ pc' = "index_error"
    /\ UNCHANGED <<stages, hypothesis, reference, hypo_tokens, ref_tokens,
                   stage_i, alignment, num_chunks, score, matches, cliques>>

(* align, lines 149-216: the program is built and solved; the solver     *)
(* reports INFEASIBLE and the assertion fails, or it returns one of the   *)
(* optimal solutions                                                      *)
AlignSolve ==
    /\ pc = "pre_ref"
    /\ stage_i > Len(stages)
    /\ ~IndexErrorRaised
    /\ LET optimal == Optimal
       IN  IF optimal = {}
           THEN /\ pc' = "infeasible"
                /\ alignment' = alignment
           ELSE /\ \E sel \in optimal : alignment' = Selected(sel)
                /\ pc' = "aligned"
    /\ UNCHANGED <<stages, hypothesis, reference, hypo_tokens, ref_tokens,
                   stage_i, num_chunks, score, matches, cliques>>

(* meteor, lines 280-293, after its call of align returned *)
MeteorReturn ==
    /\ pc = "aligned"
    /\ Len(hypo_tokens) # 0 /\ Len(ref_tokens) # 0
    /\ num_chunks' = IF Len(alignment) = 0 THEN num_chunks
                     ELSE count_chunks(alignment)
    /\ score' = MeteorScore(alignment, Len(hypo_tokens), Len(ref_tokens))
    /\ pc' = "done"
    /\ UNCHANGED <<stages, hypothesis, reference, hypo_tokens, ref_tokens,
                   stage_i, alignment, matches, cliques>>

Next ==
    \/ PreprocessHypStage
    \/ PreprocessRefStart
    \/ PreprocessRefStage
    \/ MeteorLengths
    \/ AlignIndexError
    \/ AlignSolve
    \/ MeteorReturn

Spec == Init /\ [][Next]_vars

----------------------------------------------------------------------------
(* compute_cliques as a function of any list of distinct matches *)

Pairs == (0..MaxIndex) \X (0..MaxIndex)

Distinct(s) == \A i, j \in 1..Len(s) : i # j => s[i] # s[j]

InitCliques ==
    /\ matches \in {s \in SeqsUpTo(Pairs, MaxMatches) : Distinct(s)}
    /\ cliques = <<>>
    /\ pc = "call_cliques"
    /\ stages = <<>>
    /\ hypothesis = <<>>
    /\ reference = <<>>
    /\ hypo_tokens = <<>>
    /\ ref_tokens = <<>>
    /\ stage_i = 1
    /\ alignment = <<>>
    /\ num_chunks = 0
    /\ score = NoScore

ComputeCliques ==
    /\ pc = "call_cliques"
    /\ cliques' = compute_cliques(matches)
    /\ pc' = "ret_cliques"
    /\ UNCHANGED <<stages, hypothesis, reference, hypo_tokens, ref_tokens,
                   stage_i, alignment, num_chunks, score, matches>>

NextCliques == ComputeCliques

SpecCliques == InitCliques /\ [][NextCliques]_vars

----------------------------------------------------------------------------
(* count_chunks as a function of any alignment, listed in any order *)

PartialMatching(S) ==
    \A a, b \in S : a # b => (a[1] # b[1] /\ a[2] # b[2])

InitChunks ==
    /\ alignment \in {s \in SeqsUpTo(Pairs, MaxIndex + 1) :
                        Distinct(s) /\ PartialMatching(Range(s))}
    /\ num_chunks = 0
    /\ pc = "call_chunks"
    /\ stages = <<>>
    /\ hypothesis = <<>>
    /\ reference = <<>>
    /\ hypo_tokens = <<>>
    /\ ref_tokens = <<>>
    /\ stage_i = 1
    /\ score = NoScore
    /\ matches = <<>>
    /\ cliques = <<>>

CountChunks ==
    /\ pc = "call_chunks"
    /\ num_chunks' = count_chunks(alignment)
    /\ pc' = "ret_chunks"
    /\ UNCHANGED <<stages, hypothesis, reference, hypo_tokens, ref_tokens,
                   stage_i, alignment, score, matches, cliques>>

NextChunks == CountChunks

SpecChunks == InitChunks /\ [][NextChunks]_vars

----------------------------------------------------------------------------
(* Vocabulary of the properties *)

(* pairs of tokens that agree under at least one stage *)
Candidates ==
    {m \in (0..Len(hypo_tokens) - 1) \X (0..Len(ref_tokens) - 1) :
        \E i \in 1..Len(stages) :
            /\ i <= Len(hypo_tokens[m[1] + 1].stages)
            /\ i <= Len(ref_tokens[m[2] + 1].stages)
            /\ hypo_tokens[m[1] + 1].stages[i] = ref_tokens[m[2] + 1].stages[i]}

(* the best weight under which the tokens of a candidate agree *)
BestWeight(m) ==
    SetMax({stages[i].weight :
              i \in {j \in 1..Len(stages) :
                       hypo_tokens[m[1] + 1].stages[j]
                         = ref_tokens[m[2] + 1].stages[j]}})

TotalWeight(sel) == SumF([m \in sel |-> BestWeight(m)], sel)

(* the number of unordered pairs of sel that cross: each pair is counted *)
(* once, with its smaller match first                                   *)
CrossingPairs(sel) ==
    Cardinality({p \in sel \X sel : LexLess(p[1], p[2]) /\ Crosses(p[1], p[2])})

(* the selections the constraints allow: partial matchings of the   *)
(* cardinality align requires                                       *)
ValidSelections ==
    LET required == required_matches
    IN  {sel \in SUBSET Candidates :
            Cardinality(sel) = required /\ PartialMatching(sel)}

AlignCalled == pc = "pre_ref" /\ stage_i > Len(stages) /\ ~IndexErrorRaised

BothNonempty == Len(hypo_tokens) # 0 /\ Len(ref_tokens) # 0

(* align has returned `alignment` (to test_alignment or to meteor) *)
AlignReturned == pc = "aligned" \/ (pc = "done" /\ BothNonempty)

Diagonal == [k \in 1..Len(hypothesis) |-> <<k - 1, k - 1>>]

WellBehaved(stage) == stage.kind # "broken"

Failed ==
    pc \in {"validation_error_hyp", "validation_error_ref", "index_error",
            "infeasible"}

Shares(a, b) == a[1] = b[1] \/ a[2] = b[2]

(* the matches of S reachable from R by chains sharing an index *)
RECURSIVE Closure(_, _)
Closure(S, R) ==
    LET more == R \cup {x \in S : \E y \in R : Shares(x, y)}
    IN  IF more = R THEN R ELSE Closure(S, more)

SameGroup(a, b) ==
    \E g \in 1..Len(cliques) : a \in Range(cliques[g]) /\ b \in Range(cliques[g])

Unequal(tokens) ==
    \E a, b \in 1..Len(tokens) : Len(tokens[a].stages) # Len(tokens[b].stages)

----------------------------------------------------------------------------
(* C1: whenever align is called, the program it builds is feasible: some   *)
(* selection of candidate matches uses every hypothesis index and every    *)
(* reference index at most once and has the required cardinality, so the   *)
(* infeasibility assertion never fails.                                    *)
C1_AlignFeasible ==
    /\ pc # "infeasible"
    /\ AlignCalled => ValidSelections # {}

(* C2: the list align returns is a subset of the candidate matches in     *)
(* which no hypothesis index and no reference index appears twice.        *)
C2_PartialMatching ==
    AlignReturned =>
        /\ Range(alignment) \subseteq Candidates
        /\ \A i, j \in 1..Len(alignment) :
              i # j => /\ alignment[i][1] # alignment[j][1]
                       /\ alignment[i][2] # alignment[j][2]

C2_Witness ==
    /\ pc = "aligned"
    /\ Len(alignment) = 2
    /\ Cardinality(Candidates) > 3

(* C3, as claimed: the returned alignment has the maximum total weight    *)
(* among the valid selections, and crossings only break ties.             *)
C3_MaxWeightThenCrossings ==
    pc = "aligned" =>
        LET weight == TotalWeight(Range(alignment))
            crossings == CrossingPairs(Range(alignment))
        IN  \A sel \in ValidSelections :
                /\ TotalWeight(sel) <= weight
                /\ TotalWeight(sel) = weight => crossings <= CrossingPairs(sel)

(* C3, amended: the returned alignment maximizes the total weight minus   *)
(* 2.0 per crossing pair (20 tenths: one crossing variable per ordered    *)
(* pair) among the valid selections; among selections of equal weight it  *)
(* has the fewest crossing pairs.                                         *)
C3_MaxWeightMinusCrossings ==
    pc = "aligned" =>
        LET weight == TotalWeight(Range(alignment))
            crossings == CrossingPairs(Range(alignment))
        IN  \A sel \in ValidSelections :
                /\ TotalWeight(sel) - 20 * CrossingPairs(sel)
                     <= weight - 20 * crossings
                /\ TotalWeight(sel) = weight => crossings <= CrossingPairs(sel)

(* a heavier selection with a crossing lost to the returned alignment *)
C3_Witness ==
    /\ pc = "aligned"
    /\ LET weight == TotalWeight(Range(alignment))
           crossings == CrossingPairs(Range(alignment))
       IN  \E sel \in ValidSelections :
               TotalWeight(sel) > weight /\ CrossingPairs(sel) > crossings

(* C4, as claimed: for a nonempty sentence used as hypothesis and as      *)
(* reference, under every stage list, align returns the full diagonal,    *)
(* count_chunks gives 1 and meteor returns 1.0.                           *)
C4_IdenticalSentences ==
    (hypothesis = reference /\ hypothesis # <<>>) =>
        /\ AlignReturned => alignment = Diagonal
        /\ pc = "done" => num_chunks = 1 /\ REq(score, RInt(1))

(* C4, amended: the same for every nonempty stage list; and when every    *)
(* stage appends a signature to every token, no call fails.               *)
C4_IdenticalSentencesStaged ==
    (hypothesis = reference /\ hypothesis # <<>> /\ stages # <<>>) =>
        /\ AlignReturned => alignment = Diagonal
        /\ pc = "done" => num_chunks = 1 /\ REq(score, RInt(1))
        /\ (\A i \in 1..Len(stages) : WellBehaved(stages[i])) => ~Failed

(* a sentence with a repeated word and a word matching it by stem only *)
C4_Witness ==
    /\ pc = "done"
    /\ hypothesis = reference
    /\ Len(hypothesis) = MaxLen
    /\ Len(stages) = 2
    /\ hypothesis[1] = hypothesis[MaxLen]
    /\ \E m \in Candidates : m[1] # m[2] /\ BestWeight(m) < BestWeight(<<0, 0>>)
    /\ num_chunks = 1

(* C5: two matches are in the same group of compute_cliques if and only   *)
(* if a chain of matches, each sharing an index with the next, joins      *)
(* them.                                                                  *)
C5_CliquesAreComponents ==
    pc = "ret_cliques" =>
        \A a, b \in Range(matches) :
            SameGroup(a, b) <=> b \in Closure(Range(matches), {a})

(* C6: count_chunks returns 0 for the empty alignment and otherwise 1     *)
(* plus the number of pairs, in sorted order, that are not one greater    *)
(* in both indices than the pair before.                                  *)
C6_ChunksAreDiagonalRuns ==
    pc = "ret_chunks" =>
        LET s == Sorted(alignment)
        IN  num_chunks =
              IF s = <<>> THEN 0
              ELSE 1 + Cardinality({k \in 2..Len(s) :
                                      ~(/\ s[k][1] = s[k - 1][1] + 1
                                        /\ s[k][2] = s[k - 1][2] + 1)})

(* C7, as claimed: when no hypothesis token and reference token share a   *)
(* signature, align returns the empty list and meteor returns 0.0.        *)
C7_NoSharedSignature ==
    Candidates = {} =>
        /\ AlignReturned => alignment = <<>>
        /\ pc = "aligned" => alignment = <<>>
        /\ pc = "done" => REq(score, RInt(0))

(* C7, amended: ... and meteor returns 0.0 unless both sentences are      *)
(* empty, when it returns 1.0.                                            *)
C7_NoSharedSignatureUnlessEmpty ==
    Candidates = {} =>
        /\ pc = "aligned" => alignment = <<>>
        /\ pc = "done" =>
              /\ alignment = <<>>
              /\ score = IF Len(hypo_tokens) = 0 /\ Len(ref_tokens) = 0
                         THEN RInt(1) ELSE RInt(0)

C7_Witness ==
    /\ pc = "done"
    /\ BothNonempty
    /\ Len(stages) = 2
    /\ Candidates = {}
    /\ score = RInt(0)

(* C8: with M matches, C chunks and lengths n and m, M <= min(n, m),      *)
(* 1 <= C <= M when M > 0, the penalty is at most 1/2 and the score       *)
(* meteor returns lies in [0, 1].                                         *)
C8_ScoreInUnitInterval ==
    pc = "done" =>
        /\ score[2] > 0
        /\ RLeq(RInt(0), score) /\ RLeq(score, RInt(1))
        /\ Len(alignment) <= Min(Len(hypo_tokens), Len(ref_tokens))
        /\ Len(alignment) > 0 =>
              /\ 1 <= num_chunks /\ num_chunks <= Len(alignment)
              /\ RLeq(Penalty(num_chunks, Len(alignment)), <<1, 2>>)

(* two matches in two chunks: the penalty is exactly 1/2 *)
C8_Witness ==
    /\ pc = "done"
    /\ Len(alignment) = 2
    /\ num_chunks = 2
    /\ Len(hypo_tokens) = 3
    /\ score[1] > 0

(* C9: the groups of compute_cliques partition its input: no group is     *)
(* empty, every match is at exactly one place of exactly one group, and   *)
(* the group sizes add up to the number of matches.                       *)
C9_CliquesPartition ==
    pc = "ret_cliques" =>
        /\ \A g \in 1..Len(cliques) : cliques[g] # <<>>
        /\ \A g \in 1..Len(cliques) : Range(cliques[g]) \subseteq Range(matches)
        /\ \A k \in 1..Len(matches) :
              Cardinality({p \in {q \in (1..Len(cliques)) \X (1..Len(matches)) :
                                    q[2] <= Len(cliques[q[1]])} :
                             cliques[p[1]][p[2]] = matches[k]}) = 1
        /\ \A g, f \in 1..Len(cliques) :
              g # f => Range(cliques[g]) \cap Range(cliques[f]) = {}
        /\ SumSeq([g \in 1..Len(cliques) |-> Len(cliques[g])]) = Len(matches)

C9_Witness ==
    /\ pc = "ret_cliques"
    /\ Len(matches) = 3
    /\ Len(cliques) = 2

(* C10: preprocess raises after a stage exactly when the tokens of the    *)
(* sentence hold unequal numbers of signatures; it raises at the first    *)
(* such stage, applies no later stage, and when it goes on or returns     *)
(* all tokens of the sentence hold equally many signatures.               *)
C10_ValidationAfterEachStage ==
    /\ pc = "validation_error_hyp" <=> Unequal(hypo_tokens)
    /\ pc = "validation_error_ref" <=> Unequal(ref_tokens)
    /\ pc = "validation_error_hyp" =>
          /\ stage_i <= Len(stages)
          /\ \A k \in 1..Len(hypo_tokens) : Len(hypo_tokens[k].stages) <= stage_i
    /\ pc = "validation_error_ref" =>
          /\ stage_i <= Len(stages)
          /\ \A k \in 1..Len(ref_tokens) : Len(ref_tokens[k].stages) <= stage_i

(* the second stage is the first offending one *)
C10_Witness ==
    /\ pc = "validation_error_ref"
    /\ stage_i = 2
    /\ \E k \in 1..Len(ref_tokens) : Len(ref_tokens[k].stages) = 2

(* the connected components of the candidate graph *)
Components == {Closure(Candidates, {m}) : m \in Candidates}

(* the size of a maximum matching of the candidates in comp *)
MaxMatching(comp) ==
    SetMax({Cardinality(sel) : sel \in {t \in SUBSET comp : PartialMatching(t)}})

(* min(distinct hypothesis indices, distinct reference indices) of comp *)
ComponentBound(comp) ==
    Min(Cardinality({m[1] : m \in comp}), Cardinality({m[2] : m \in comp}))

(* C11: for given tokens and stages every optimal solution of the program *)
(* align builds gives the alignment that was returned, and therefore the  *)
(* chunk count and the score meteor returned.                             *)
C11_OptimumUnique ==
    AlignReturned =>
        \A sel \in Optimal :
            /\ Selected(sel) = alignment
            /\ (pc = "done" /\ Len(alignment) > 0) =>
                  num_chunks = count_chunks(Selected(sel))
            /\ pc = "done" =>
                  REq(score, MeteorScore(Selected(sel), Len(hypo_tokens),
                                         Len(ref_tokens)))

(* C12: whenever align returns, every connected component of the          *)
(* candidate graph holds as many returned pairs as its maximum matching   *)
(* has, that number is min(distinct hypothesis indices, distinct          *)
(* reference indices) of the component, and the returned pairs number the *)
(* sum of these values.                                                   *)
C12_MaximumMatchingPerComponent ==
    AlignReturned =>
        LET comps == Components
            returned == Range(alignment)
        IN  /\ \A comp \in comps :
                  /\ Cardinality(returned \cap comp) = MaxMatching(comp)
                  /\ MaxMatching(comp) = ComponentBound(comp)
            /\ Len(alignment)
                 = SumF([comp \in comps |-> ComponentBound(comp)], comps)

====
